---- MODULE Spec2Model ----
(***************************************************************************)
(* Model of mini-backtrace (src/src/lib.rs): Backtrace::<N>::capture,      *)
(* Backtrace::<N>::capture_from_context and the shared step-and-collect    *)
(* loop fill_from_cursor, run against a foreign unwinder that is modelled  *)
(* as a walk over a call chain.                                            *)
(*                                                                         *)
(* One action is one call into the unwinder together with the local code   *)
(* that follows it up to the next unwinder call, so that invocations can   *)
(* be interleaved between any two unwinder calls.                          *)
(***************************************************************************)
EXTENDS Integers, Sequences, FiniteSets, TLC

\* Largest capacity N of Backtrace<N> that is explored (N ranges over 0..MaxN).
MaxN == 3
\* Longest call chain the unwinder walks in the single-invocation runs.
MaxDepth == 3
\* Longest call chain of each invocation in the two-invocation runs.
NestedDepth == 1
\* Width of usize, scaled down from 32/64 bits; arithmetic wraps at 2^WordBits.
WordBits == 3

\* uw::UNW_ESUCCESS, the unwinder's success code.
UNW_ESUCCESS == 0

WordMod == 2 ^ WordBits

\* The unwinder's "no unwind info" error code (any value other than success).
UNW_ENOINFO == 0 - 6549

\* Return addresses / fault addresses that occur in the explored chains.
IPs == {0, 2}
\* Address inside capture / capture_from_context itself (the frame of unw_getcontext).
SelfIP == WordMod - 2
\* Return address into the caller of capture_from_context (the trap handler).
HandlerIP == WordMod - 4

Archs == {"aarch64", "riscv64", "riscv32", "x86_64"}

\* cfg_if! block: the Context adapter is compiled for these targets.
ContextExists(arch) == arch = "aarch64" \/ arch \in {"riscv64", "riscv32"}

\* #[cfg(any(target_arch = "aarch64", target_arch = "riscv64"))] on capture_from_context.
CaptureFromContextOffered(arch) == arch \in {"aarch64", "riscv64"}

\* A frame as the unwinder reports it: its instruction pointer and whether
\* unw_is_signal_frame answers > 0 for it.
Frame == [ip : IPs, sig : {0, 1}]

Chains(d) == UNION {[1..k -> Frame] : k \in 0..d}

\* What unw_step answers once the chain is exhausted: 0 (end), a negative
\* error, or success forever (a cyclic chain of frame records).
EndKinds == {"end", "error", "loop"}

HandlerChain == <<[ip |-> HandlerIP, sig |-> 0]>>

\* An invocation of capture(): the callers of capture are `local`.
CaptureCalls(d) ==
    {c \in [op : {"capture"}, ctx_ip : {0}, local : Chains(d), trap : {<<>>},
            end : EndKinds, proc_info : {UNW_ESUCCESS}] :
        ~(c.local = <<>> /\ c.end = "loop")}

\* An invocation of capture_from_context(ctx): ctx holds the trapped ip, the
\* callers of the trapped function are `trap`, the unwinder's answer for the
\* trapped ip is proc_info.
ContextCalls(d) ==
    {c \in [op : {"capture_from_context"}, ctx_ip : IPs, local : {HandlerChain},
            trap : Chains(d), end : EndKinds, proc_info : {UNW_ESUCCESS, UNW_ENOINFO}] :
        ~(c.trap = <<>> /\ c.end = "loop")}

CallsOn(arch, d) ==
    CaptureCalls(d) \cup (IF CaptureFromContextOffered(arch) THEN ContextCalls(d) ELSE {})

VARIABLES
    target_arch,      \* build: the target architecture
    overflow_checks,  \* build: whether integer overflow panics (debug) or wraps (release)
    N,                \* build: the capacity of Backtrace<N>
    call,             \* invocation -> its operation, its ctx and the stack it runs on
    pc,               \* invocation -> next unwinder call
    unw_context,      \* storage slot -> unw_context_t
    unw_cursor,       \* storage slot -> unw_cursor_t
    result,           \* storage slot -> Backtrace<N> under construction
    ip,               \* invocation -> the local `ip` of fill_from_cursor
    rc,               \* invocation -> last value unw_step returned (0 before the first)
    steps,            \* invocation -> number of unw_step calls made
    ret               \* invocation -> "running", "Backtrace", "Some", "None" or "panic"

vars == <<target_arch, overflow_checks, N, call, pc, unw_context, unw_cursor, result,
          ip, rc, steps, ret>>

build == <<target_arch, overflow_checks, N, call>>

\* Self::default()
Default == [frames |-> <<>>, frames_omitted |-> FALSE]

UninitCursor == [pos |-> 0, ip |-> 0, sig |-> 0, regs |-> "uninit"]

-----------------------------------------------------------------------------
(* The foreign unwinder *)

\* unw_getcontext: a snapshot of the registers of the running function.
UnwGetContext == "local"

\* unw_init_local: the cursor starts at the frame that took the snapshot.
UnwInitLocal(context) == [pos |-> 0, ip |-> SelfIP, sig |-> 0, regs |-> context]

\* Context::apply: overwrite the cursor's registers with the trap snapshot.
ContextApply(c, cursor) == [pos |-> 0, ip |-> c.ctx_ip, sig |-> 0, regs |-> "ctx"]

\* Context::ip
ContextIp(c) == c.ctx_ip

\* The chain a cursor walks: the trapped function's callers once ctx was
\* applied, the callers of the running function otherwise.
Walk(c, cursor) == IF cursor.regs = "ctx" THEN c.trap ELSE c.local

\* unw_get_proc_info
UnwGetProcInfo(c, cursor) == IF cursor.regs = "ctx" THEN c.proc_info ELSE UNW_ESUCCESS

\* unw_step: move to the caller's frame; > 0 on success.
UnwStep(c, cursor) ==
    LET ch == Walk(c, cursor)
        nxt == IF cursor.pos < Len(ch) THEN cursor.pos + 1 ELSE 1
    IN  IF cursor.pos < Len(ch) \/ (c.end = "loop" /\ Len(ch) > 0)
        THEN [rc |-> 1,
              cursor |-> [cursor EXCEPT !.pos = nxt, !.ip = ch[nxt].ip, !.sig = ch[nxt].sig]]
        ELSE [rc |-> IF c.end = "error" THEN 0 - 1 ELSE 0, cursor |-> cursor]

\* unw_get_reg(cursor, UNW_REG_IP, &mut ip)
UnwGetReg(cursor) == cursor.ip

\* unw_is_signal_frame
UnwIsSignalFrame(cursor) == cursor.sig

-----------------------------------------------------------------------------
(* Backtrace<N> *)

\* Mutant: the buffers are statics shared by all invocations.
StackShared(i) == 1

\* Each invocation's unw_context, unw_cursor and result are locals of its own
\* stack frame.
StackLocal(i) == i

\* Mutant: `while uw::unw_step(cursor) >= 0`.
StepNotNegative(r) == r >= 0

\* `while uw::unw_step(cursor) > 0`
StepSucceeded(r) == r > 0

\* Mutant: the result of unw_get_proc_info is ignored.
ProcInfoIgnored(r) == TRUE

\* `!= uw::UNW_ESUCCESS` negated: the check that lets capture_from_context go on.
ProcInfoFound(r) == r = UNW_ESUCCESS

\* `if uw::unw_is_signal_frame(cursor) > 0 { ip -= 1; }`
Decrements(sig) == sig > 0

\* `ip -= 1` overflows usize.
SubOverflows(x) == x < 1

AdjustIP(x, sig) == IF Decrements(sig) THEN (x - 1) % WordMod ELSE x

\* Mutant: one entry more than the capacity is accepted.
TryPushOffByOne(frames, x) ==
    IF Len(frames) <= N THEN [ok |-> TRUE, frames |-> Append(frames, x)]
    ELSE [ok |-> FALSE, frames |-> frames]

\* Mutant: the entry is inserted at the front.
TryPushFront(frames, x) ==
    IF Len(frames) < N THEN [ok |-> TRUE, frames |-> <<x>> \o frames]
    ELSE [ok |-> FALSE, frames |-> frames]

\* ArrayVec::try_push: Err when the vector is full.
TryPush(frames, x) ==
    IF Len(frames) < N THEN [ok |-> TRUE, frames |-> Append(frames, x)]
    ELSE [ok |-> FALSE, frames |-> frames]

\* Mutant: the trapped ip is adjusted like a return address.
PushDecremented(frames, x) ==
    IF Len(frames) < N THEN [ok |-> TRUE, frames |-> Append(frames, (x - 1) % WordMod)]
    ELSE [ok |-> FALSE, frames |-> frames]

\* ArrayVec::push: panics when the vector is full.
Push(frames, x) ==
    IF Len(frames) < N THEN [ok |-> TRUE, frames |-> Append(frames, x)]
    ELSE [ok |-> FALSE, frames |-> frames]

\* Mutant: the loop is left without setting the flag.
OnFullSilent(r) == r

\* `self.frames_omitted = true; break;`
OnFull(r) == [r EXCEPT !.frames_omitted = TRUE]

Returned(op) == IF op = "capture" THEN "Backtrace" ELSE "Some"

\* uw::unw_getcontext(unw_context.as_mut_ptr())
GetContext(i) ==
    /\ pc[i] = "getcontext"
    /\ unw_context' = [unw_context EXCEPT ![StackLocal(i)] = UnwGetContext]
    /\ pc' = [pc EXCEPT ![i] = "init_local"]
    /\ UNCHANGED <<build, unw_cursor, result, ip, rc, steps, ret>>

\* uw::unw_init_local(cursor, context); in capture, `let mut result = Self::default()`
InitLocal(i) ==
    /\ pc[i] = "init_local"
    /\ unw_cursor' = [unw_cursor EXCEPT
                        ![StackLocal(i)] = UnwInitLocal(unw_context[StackLocal(i)])]
    /\ IF call[i].op = "capture"
       THEN /\ result' = [result EXCEPT ![StackLocal(i)] = Default]
            /\ pc' = [pc EXCEPT ![i] = "step"]
       ELSE /\ pc' = [pc EXCEPT ![i] = "apply"]
            /\ UNCHANGED result
    /\ UNCHANGED <<build, unw_context, ip, rc, steps, ret>>

\* ctx.apply(unw_cursor.as_mut_ptr())
Apply(i) ==
    /\ pc[i] = "apply"
    /\ unw_cursor' = [unw_cursor EXCEPT
                        ![StackLocal(i)] = ContextApply(call[i], unw_cursor[StackLocal(i)])]
    /\ pc' = [pc EXCEPT ![i] = "get_proc_info"]
    /\ UNCHANGED <<build, unw_context, result, ip, rc, steps, ret>>

\* uw::unw_get_proc_info(..) != UNW_ESUCCESS => return None; otherwise
\* result = Self::default(); result.frames.push(ctx.ip())
GetProcInfo(i) ==
    /\ pc[i] = "get_proc_info"
    /\ LET r == UnwGetProcInfo(call[i], unw_cursor[StackLocal(i)])
           p == Push(Default.frames, ContextIp(call[i]))
       IN  IF ~ProcInfoFound(r)
           THEN /\ pc' = [pc EXCEPT ![i] = "done"]
                /\ ret' = [ret EXCEPT ![i] = "None"]
                /\ UNCHANGED result
           ELSE IF ~p.ok
           THEN /\ pc' = [pc EXCEPT ![i] = "done"]
                /\ ret' = [ret EXCEPT ![i] = "panic"]
                /\ result' = [result EXCEPT ![StackLocal(i)] = Default]
           ELSE /\ pc' = [pc EXCEPT ![i] = "step"]
                /\ result' = [result EXCEPT ![StackLocal(i)] =
                                [frames |-> p.frames, frames_omitted |-> FALSE]]
                /\ UNCHANGED ret
    /\ UNCHANGED <<build, unw_context, unw_cursor, ip, rc, steps>>

\* `while uw::unw_step(cursor) > 0`; a non-positive answer leaves the loop and
\* the operation returns its result.
Step(i) ==
    /\ pc[i] = "step"
    /\ LET s == UnwStep(call[i], unw_cursor[StackLocal(i)])
       IN  /\ unw_cursor' = [unw_cursor EXCEPT ![StackLocal(i)] = s.cursor]
           /\ rc' = [rc EXCEPT ![i] = s.rc]
           /\ steps' = [steps EXCEPT ![i] = @ + 1]
           /\ IF StepSucceeded(s.rc)
              THEN /\ pc' = [pc EXCEPT ![i] = "get_reg"]
                   /\ UNCHANGED ret
              ELSE /\ pc' = [pc EXCEPT ![i] = "done"]
                   /\ ret' = [ret EXCEPT ![i] = Returned(call[i].op)]
    /\ UNCHANGED <<build, unw_context, result, ip>>

\* `let mut ip = 0; uw::unw_get_reg(cursor, uw::UNW_REG_IP, &mut ip);`
GetReg(i) ==
    /\ pc[i] = "get_reg"
    /\ ip' = [ip EXCEPT ![i] = UnwGetReg(unw_cursor[StackLocal(i)])]
    /\ pc' = [pc EXCEPT ![i] = "is_signal_frame"]
    /\ UNCHANGED <<build, unw_context, unw_cursor, result, rc, steps, ret>>

\* uw::unw_is_signal_frame(cursor), the adjustment of ip, try_push and, when
\* the vector is full, frames_omitted = true; break (and the return).
IsSignalFrame(i) ==
    /\ pc[i] = "is_signal_frame"
    /\ LET sig == UnwIsSignalFrame(unw_cursor[StackLocal(i)])
           adj == AdjustIP(ip[i], sig)
           p   == TryPush(result[StackLocal(i)].frames, adj)
       IN  IF Decrements(sig) /\ SubOverflows(ip[i]) /\ overflow_checks
           THEN /\ pc' = [pc EXCEPT ![i] = "done"]
                /\ ret' = [ret EXCEPT ![i] = "panic"]
                /\ UNCHANGED <<result, ip>>
           ELSE /\ ip' = [ip EXCEPT ![i] = adj]
                /\ IF p.ok
                   THEN /\ result' = [result EXCEPT ![StackLocal(i)].frames = p.frames]
                        /\ pc' = [pc EXCEPT ![i] = "step"]
                        /\ UNCHANGED ret
                   ELSE /\ result' = [result EXCEPT
                                        ![StackLocal(i)] = OnFull(result[StackLocal(i)])]
                        /\ pc' = [pc EXCEPT ![i] = "done"]
                        /\ ret' = [ret EXCEPT ![i] = Returned(call[i].op)]
    /\ UNCHANGED <<build, unw_context, unw_cursor, rc, steps>>

InitFor(ids, d) ==
    /\ target_arch \in Archs
    /\ overflow_checks \in BOOLEAN
    /\ N \in 0..MaxN
    /\ call \in [ids -> CallsOn(target_arch, d)]
    /\ pc = [i \in ids |-> "getcontext"]
    /\ unw_context = [i \in ids |-> "uninit"]
    /\ unw_cursor = [i \in ids |-> UninitCursor]
    /\ result = [i \in ids |-> Default]
    /\ ip = [i \in ids |-> 0]
    /\ rc = [i \in ids |-> 0]
    /\ steps = [i \in ids |-> 0]
    /\ ret = [i \in ids |-> "running"]

Init == InitFor({1}, MaxDepth)

Next ==
    \/ \E i \in DOMAIN call : GetContext(i)
    \/ \E i \in DOMAIN call : InitLocal(i)
    \/ \E i \in DOMAIN call : Apply(i)
    \/ \E i \in DOMAIN call : GetProcInfo(i)
    \/ \E i \in DOMAIN call : Step(i)
    \/ \E i \in DOMAIN call : GetReg(i)
    \/ \E i \in DOMAIN call : IsSignalFrame(i)

Spec == Init /\ [][Next]_vars

\* Two invocations in flight at once (a capture nested in a signal handler
\* that interrupted another, or captures on two threads).
\* The inputs are narrowed to keep the interleavings tractable: signal frames
\* sit at address 0 (where `ip -= 1` overflows), other frames do not, a failed
\* step is the end of the chain, and the trapped ip is not 0.
NestedCalls(arch) ==
    {c \in CallsOn(arch, NestedDepth) :
        /\ c.end # "error"
        /\ c.op = "capture_from_context" => c.ctx_ip # 0
        /\ \A k \in 1..Len(c.local) : (c.local[k].sig > 0 <=> c.local[k].ip = 0)
        /\ \A k \in 1..Len(c.trap) : (c.trap[k].sig > 0 <=> c.trap[k].ip = 0)}

NestedInit ==
    /\ InitFor({1, 2}, NestedDepth)
    /\ target_arch \in {"aarch64", "x86_64"}
    /\ \A i \in {1, 2} : call[i] \in NestedCalls(target_arch)

NestedSpec == NestedInit /\ [][Next]_vars

\* Every operation runs to completion without blocking: a started invocation
\* keeps making its next unwinder call.
FairSpec == Init /\ [][Next]_vars /\ WF_vars(Next)

-----------------------------------------------------------------------------
(* The operations run without interruption, as functions of their inputs *)

RECURSIVE FillFromCursor(_, _, _)
\* fill_from_cursor(&mut self, cursor), with self = r
FillFromCursor(c, cursor, r) ==
    LET s   == UnwStep(c, cursor)
        x   == UnwGetReg(s.cursor)
        sig == UnwIsSignalFrame(s.cursor)
        p   == TryPush(r.frames, AdjustIP(x, sig))
    IN  IF ~StepSucceeded(s.rc) THEN [ret |-> Returned(c.op), result |-> r]
        ELSE IF Decrements(sig) /\ SubOverflows(x) /\ overflow_checks
        THEN [ret |-> "panic", result |-> r]
        ELSE IF ~p.ok THEN [ret |-> Returned(c.op), result |-> OnFull(r)]
        ELSE FillFromCursor(c, s.cursor, [r EXCEPT !.frames = p.frames])

\* Backtrace::capture()
Capture(c) == FillFromCursor(c, UnwInitLocal(UnwGetContext), Default)

\* Backtrace::capture_from_context(ctx)
CaptureFromContext(c) ==
    LET cursor == ContextApply(c, UnwInitLocal(UnwGetContext))
        p      == Push(Default.frames, ContextIp(c))
    IN  IF ~ProcInfoFound(UnwGetProcInfo(c, cursor)) THEN [ret |-> "None", result |-> Default]
        ELSE IF ~p.ok THEN [ret |-> "panic", result |-> Default]
        ELSE FillFromCursor(c, cursor, [frames |-> p.frames, frames_omitted |-> FALSE])

RunAlone(c) == IF c.op = "capture" THEN Capture(c) ELSE CaptureFromContext(c)

-----------------------------------------------------------------------------
(* Vocabulary of the claims *)

Ids == DOMAIN call

\* The frames the unwinder would yield to invocation i, innermost first.
Chain(i) == IF call[i].op = "capture" THEN call[i].local ELSE call[i].trap

Depth(i) == Len(Chain(i))

Endless(i) == call[i].end = "loop"

\* The k-th frame the unwinder yields (k >= 1).
ChainAt(i, k) == Chain(i)[((k - 1) % Depth(i)) + 1]

\* Entries recorded before the loop: the trapped ip of capture_from_context.
Seeded(i) == IF call[i].op = "capture" THEN 0 ELSE 1

Min(a, b) == IF a < b THEN a ELSE b

\* Number of entries that fit: the whole chain, or the capacity.
Fit(i) == IF Endless(i) THEN N ELSE Min(Seeded(i) + Depth(i), N)

\* An address recorded for frame f: f's ip, or f's ip less one.
From(x, f) == x = f.ip \/ x = (f.ip - 1) % WordMod

HasBacktrace(i) == ret[i] \in {"Backtrace", "Some"}

Frames(i) == result[i].frames

-----------------------------------------------------------------------------
(* Claims *)

\* C1 (as claimed): after every successful step the address appended to
\* frames is the cursor's ip register less one if the frame is not a signal
\* frame, and the register unchanged if it is a signal frame.  (The cursor
\* still stands on the frame whose address was appended last.)
C1_DecrementUnlessSignalFrame ==
    \A i \in Ids :
        (pc[i] = "step" /\ steps[i] > 0) =>
            Frames(i)[Len(Frames(i))] =
                IF UnwIsSignalFrame(unw_cursor[i]) > 0
                THEN UnwGetReg(unw_cursor[i])
                ELSE (UnwGetReg(unw_cursor[i]) - 1) % WordMod

\* C2 (as claimed): for N >= 1, capture() over a chain of exactly D >= N
\* caller frames returns N frames and frames_omitted = true.
C2_FullAtDepthAtLeastN ==
    \A i \in Ids :
        (ret[i] = "Backtrace" /\ N >= 1 /\ ~Endless(i) /\ Depth(i) >= N) =>
            (Len(Frames(i)) = N /\ result[i].frames_omitted)

\* C2 (amended): for N >= 1, capture() over a chain of exactly D caller frames
\* returns N frames and frames_omitted = true when D > N, and N frames and
\* frames_omitted = false when D = N.
C2_FullAtDepthAboveN ==
    \A i \in Ids :
        (ret[i] = "Backtrace" /\ N >= 1 /\ ~Endless(i)) =>
            /\ Depth(i) > N => (Len(Frames(i)) = N /\ result[i].frames_omitted)
            /\ Depth(i) = N => (Len(Frames(i)) = N /\ ~result[i].frames_omitted)

C2_Witness ==
    \E i \in Ids : ret[i] = "Backtrace" /\ N >= 1 /\ ~Endless(i) /\ Depth(i) > N

\* C3: in the Backtrace that capture() returns, and in the one inside the Some
\* that capture_from_context() returns, frames_omitted is true exactly when
\* the true call chain (the frames the unwinder yields, plus the seeded trap
\* address) has more than N entries.
C3_OmittedIffChainExceedsN ==
    \A i \in Ids :
        HasBacktrace(i) =>
            (result[i].frames_omitted <=> (Endless(i) \/ Seeded(i) + Depth(i) > N))

C3_Witness ==
    \E i \in Ids : ret[i] = "Some" /\ ~Endless(i) /\ Seeded(i) + Depth(i) = N + 1

\* C4: capture() returns the innermost min(D, N) caller frames, innermost
\* first: the k-th entry is the address of the k-th frame the unwinder yields
\* (as it is or less one), nothing is skipped, repeated or reordered, the
\* frame of capture itself is not among them, and D < N gives D entries.
C4_InnermostFramesInCallOrder ==
    \A i \in Ids :
        ret[i] = "Backtrace" =>
            /\ Len(Frames(i)) = Fit(i)
            /\ \A k \in 1..Len(Frames(i)) :
                  /\ From(Frames(i)[k], ChainAt(i, k))
                  /\ ~From(Frames(i)[k], [ip |-> SelfIP])

C4_Witness ==
    \E i \in Ids :
        /\ ret[i] = "Backtrace" /\ ~Endless(i) /\ Depth(i) = 2 /\ N = 3
        /\ Chain(i)[1].ip # Chain(i)[2].ip

\* C5: capture_from_context(ctx) returns None exactly when the procedure-info
\* query on the cursor carrying ctx does not report success, and then no
\* frame was recorded and the cursor was never stepped; a value returned in
\* any other case is a Some.  (Whether a value is returned at all is C7.)
C5_NoneIffNoProcInfo ==
    \A i \in Ids :
        (call[i].op = "capture_from_context" /\ pc[i] = "done") =>
            /\ ret[i] = "None" <=> call[i].proc_info # UNW_ESUCCESS
            /\ ret[i] = "None" => (Frames(i) = <<>> /\ steps[i] = 0)
            /\ (call[i].proc_info = UNW_ESUCCESS /\ ret[i] # "panic") => ret[i] = "Some"

C5_Witness ==
    \E i \in Ids : ret[i] = "None" /\ Depth(i) > 0 /\ N > 0

\* C6: when capture_from_context(ctx) returns Some, the first entry is
\* ctx.ip() itself and the entries after it are the callers of the trapped
\* function, innermost first, as the cursor carrying ctx yields them.
C6_FirstFrameIsContextIp ==
    \A i \in Ids :
        ret[i] = "Some" =>
            /\ Len(Frames(i)) = Fit(i)
            /\ Frames(i)[1] = call[i].ctx_ip
            /\ \A k \in 2..Len(Frames(i)) : From(Frames(i)[k], call[i].trap[((k - 2) % Depth(i)) + 1])

C6_Witness ==
    \E i \in Ids : ret[i] = "Some" /\ call[i].ctx_ip = 0 /\ Len(Frames(i)) = 3

\* C7 (as claimed): neither operation ever panics.
C7_NeverPanics == \A i \in Ids : ret[i] # "panic"

\* C8 (as claimed): capture_from_context is offered on exactly the targets
\* that have a Context adapter.
C8_OfferedWhereContextExists ==
    ContextExists(target_arch) <=> CaptureFromContextOffered(target_arch)

\* C9: invocations that interleave between unwinder calls each end as they
\* would have ended running alone, and a call made by one invocation leaves
\* the context, the cursor and the frames of every other invocation unchanged.
C9_InvocationsIndependent ==
    /\ [](\A i \in Ids :
            pc[i] = "done" =>
                /\ ret[i] = RunAlone(call[i]).ret
                /\ HasBacktrace(i) => result[i] = RunAlone(call[i]).result)
    /\ [][\A i \in Ids :
            pc'[i] = pc[i] =>
                /\ unw_context'[i] = unw_context[i]
                /\ unw_cursor'[i] = unw_cursor[i]
                /\ result'[i] = result[i]]_vars

C9_Witness ==
    /\ \A i \in Ids : pc[i] = "is_signal_frame" /\ Len(Frames(i)) >= 1
    /\ Cardinality(Ids) = 2
    /\ call[1] # call[2]

\* C10: the loop ends, and the cursor is not stepped after the first
\* non-positive step result (which leaves frames and frames_omitted as they
\* were) nor after the first failed append; an operation steps at most N + 1
\* times.  The loop has ended when the operation has returned or panicked.
C10_LoopStopsAndTerminates ==
    /\ [](\A i \in Ids : steps[i] <= N + 1)
    /\ [][\A i \in Ids :
            ((steps[i] > 0 /\ rc[i] <= 0) \/ result[i].frames_omitted) =>
                steps'[i] = steps[i]]_vars
    /\ [][\A i \in Ids :
            (steps'[i] # steps[i] /\ rc'[i] <= 0) =>
                (result'[i] = result[i] /\ pc'[i] = "done")]_vars
    /\ <>(\A i \in Ids : pc[i] = "done")

C10_Witness ==
    \E i \in Ids : call[i].op = "capture" /\ Endless(i) /\ steps[i] = N + 1 /\ pc[i] = "done"

====
